---- MODULE Spec2Model ----
(***************************************************************************)
(* Model of package saferand (src/saferand.go): the entropy source         *)
(* ExpSource (Seed, Int63, Uint64), the package-level functions that draw  *)
(* through defaultRand, Read and Seed.                                      *)
(*                                                                         *)
(* A 64-bit value is kept at full width as four 16-bit limbs, most         *)
(* significant first.  A byte buffer is a sequence of bytes.  Callers are  *)
(* goroutines; each has at most one call in progress, and every statement  *)
(* of a call that touches a buffer is a step of its own so that the steps  *)
(* of concurrent calls interleave.                                         *)
(***************************************************************************)
EXTENDS Integers, Sequences, FiniteSets, TLC

\* ---------------------------------------------------------------- bounds

\* The loop counter i of ExpSource.Int63 is never read by the code; the model
\* keeps it saturating at MaxIter.  The loop itself is not bounded by it.
MaxIter == 2

\* Longest buffer a caller hands to Read.
MaxLen == 2

\* The goroutines that call into the package.
Procs == {1, 2}

\* Seeds handed to Seed.
SeedVals == {0, 42}

\* Bounds handed to Intn, Int31n and Int63n.
NVals == {-1, 0, 3, 4}

\* The bounded draws.
BoundedFns == {"Intn", "Int31n", "Int63n"}

\* ------------------------------------------------------------- constants

\* make([]byte, 8)
BufLen == 8

\* const mask = 1<<7 - 1
mask == 127

\* The base of the limbs of a 64-bit value.
Limb == 256 * 256

\* math.MaxInt64
MaxInt64 == <<32767, 65535, 65535, 65535>>

\* math.MaxUint64
MaxUint64 == <<65535, 65535, 65535, 65535>>

NoErr == ""

Zero8 == [k \in 1..BufLen |-> 0]

\* ------------------------------------------------------- the OS facility

\* The 8-byte blocks the OS entropy facility delivers in the model.
EntropyBlocks ==
    { <<255, 255, 255, 255, 255, 255, 255, 255>>,
      <<127, 255, 255, 255, 255, 255, 255, 255>>,
      <<255, 255, 255, 255, 255, 255, 255, 254>>,
      <<128, 0, 0, 0, 0, 0, 0, 0>>,
      <<1, 2, 3, 4, 5, 6, 7, 8>> }

\* The block a failing read delivers the head of.
FailBlocks == { <<1, 2, 3, 4, 5, 6, 7, 8>> }

\* The errors the OS facility fails with.
OsErrors == {"EIO", "EAGAIN"}

\* The byte counts of a failed read of len bytes: none, or all but one.
PartialCounts(len) == {0, len - 1} \cap (0..(len - 1))

\* crypto/rand.Read on a buffer of len bytes: either every byte is delivered
\* and the error is nil, or fewer bytes are delivered with an error.
OsRead(len) ==
    { [n |-> len, err |-> NoErr, bytes |-> SubSeq(e, 1, len)] : e \in EntropyBlocks }
    \cup
    { [n |-> k, err |-> er, bytes |-> SubSeq(e, 1, k)] :
        k \in PartialCounts(len), er \in OsErrors, e \in FailBlocks }

\* ------------------------------------------------------------ arithmetic

RECURSIVE BitAnd(_, _)
BitAnd(a, b) ==
    IF a = 0 \/ b = 0 THEN 0
    ELSE (a % 2) * (b % 2) + 2 * BitAnd(a \div 2, b \div 2)

Min(a, b) == IF a < b THEN a ELSE b

\* binary.BigEndian.Uint64
BigEndianUint64(b) == [j \in 1..4 |-> b[2 * j - 1] * 256 + b[2 * j]]

\* binary.LittleEndian.Uint64
LittleEndianUint64(b) == [j \in 1..4 |-> b[10 - 2 * j] * 256 + b[9 - 2 * j]]

\* a < b on uint64
LessU64(a, b) ==
    \E j \in 1..4 : a[j] < b[j] /\ \A k \in 1..(j - 1) : a[k] = b[k]

\* The k-th byte of a 64-bit value, k = 1 the most significant.
ByteAt(v, k) ==
    IF k % 2 = 1 THEN v[(k + 1) \div 2] \div 256 ELSE v[k \div 2] % 256

\* The sign of int64(v).
IsNegative(v) == v[1] >= 32768

\* rand.Read(buf): the delivered bytes overwrite the head of the buffer.
Fill(buf, bytes) ==
    [j \in 1..Len(buf) |-> IF j <= Len(bytes) THEN bytes[j] ELSE buf[j]]

\* ------------------------------------------------------------------ state

VARIABLES
    defaultRand,   \* var defaultRand = exprand.New(NewSource())
    calls,         \* the call each goroutine has in progress, or its outcome
    heap,          \* the byte buffers; a made buffer no call holds is zeroed
    seedCalls      \* history: the parity of the number of Seed calls

vars == <<defaultRand, calls, heap, seedCalls>>

\* A variant: one buffer shared by every call.
MakeBufShared(p) == <<1, "make">>

\* buf := make([]byte, 8): a buffer of the call's own.
MakeBuf(p) == <<p, "make">>

\* The buffer a caller hands to Read.
ArgBuf(p) == <<p, "arg">>

BufIds == { MakeBuf(p) : p \in Procs } \cup { ArgBuf(p) : p \in Procs }

\* A call that has not begun.  delivered, oserr, reqLen, reads and fresh are
\* history: the bytes and the error of the call's last OS read, the length
\* it asked for, the number of its OS reads (saturating) and whether bytes
\* were read since the value was last examined.
NoCall ==
    [op |-> "none", pc |-> "idle", n |-> 0, buf |-> <<>>, i |-> 0,
     ret |-> <<>>, res |-> <<>>, cnt |-> 0, err |-> NoErr,
     delivered |-> <<>>, oserr |-> NoErr, reqLen |-> 0, reads |-> 0,
     fresh |-> FALSE]

Ready(p) == calls[p].pc \in {"idle", "done", "panicked"}

\* What one OS read leaves in the call's history.
Observe(c, len, o) ==
    [c EXCEPT !.delivered = o.bytes, !.oserr = o.err, !.reqLen = len,
              !.reads = Min(c.reads + 1, MaxIter + 1), !.fresh = TRUE]

\* A call begins: the caller's earlier Read buffer is out of scope, and
\* make returns a zeroed buffer.
Begin(p, op, n, pc) ==
    [NoCall EXCEPT !.op = op, !.n = n, !.pc = pc, !.buf = MakeBuf(p)]

BeginHeap(p) == [heap EXCEPT ![MakeBuf(p)] = Zero8, ![ArgBuf(p)] = <<>>]

\* A call that returned or panicked no longer holds the buffer it made.
Release(hp, c) ==
    IF c.pc \in {"done", "panicked"} /\ c.buf \in { MakeBuf(q) : q \in Procs }
    THEN [hp EXCEPT ![c.buf] = Zero8]
    ELSE hp

Init ==
    /\ defaultRand = [src |-> "ExpSource"]
    /\ calls = [p \in Procs |-> NoCall]
    /\ heap = [b \in BufIds |-> IF b[2] = "make" THEN Zero8 ELSE <<>>]
    /\ seedCalls = 0

\* ------------------------------------------------------ ExpSource.Int63

\* A variant: the failed read is tried again.
OnReadErrorRetry(c, err) == c

\* if _, err := rand.Read(buf); err != nil { panic(err) }
OnReadError(c, err) == [c EXCEPT !.pc = "panicked", !.err = err]

\* A variant: x <= math.MaxInt64.
AcceptLeq(x) == ~LessU64(MaxInt64, x)

\* if x < math.MaxInt64
Accept(x) == LessU64(x, MaxInt64)

\* A variant: the loop gives up after MaxIter rejections.
LoopCondCapped(i) == i < MaxIter

\* for i := 0; ; i++: the loop has no condition.
LoopCond(i) == TRUE

\* A variant: the rejected buffer is examined again without a read.
RetryPcCached == "i63_check"

\* Where the for loop goes after a rejected value: back to rand.Read.
RetryPc == "i63_read"

Call_ExpSource_Int63(p) ==
    /\ Ready(p)
    /\ calls' = [calls EXCEPT ![p] = Begin(p, "ExpSource.Int63", 0, "i63_read")]
    /\ heap' = BeginHeap(p)
    /\ UNCHANGED <<defaultRand, seedCalls>>

ExpSource_Int63_ReadOutcome(p, o) ==
    /\ calls[p].pc = "i63_read"
    /\ LET c == Observe(calls[p], BufLen, o)
           d == IF o.err # NoErr THEN OnReadError(c, o.err)
                ELSE [c EXCEPT !.pc = "i63_check"]
       IN  /\ heap' = Release([heap EXCEPT ![c.buf] = Fill(@, o.bytes)], d)
           /\ calls' = [calls EXCEPT ![p] = d]
    /\ UNCHANGED <<defaultRand, seedCalls>>

ExpSource_Int63_Read(p) ==
    \E o \in OsRead(BufLen) : ExpSource_Int63_ReadOutcome(p, o)

ExpSource_Int63_Check(p) ==
    /\ calls[p].pc = "i63_check"
    /\ LET c == calls[p]
           masked == [heap[c.buf] EXCEPT ![1] = BitAnd(@, mask)]
           x == BigEndianUint64(masked)
           d == IF Accept(x)
                THEN [c EXCEPT !.pc = "done", !.res = x, !.fresh = FALSE]
                ELSE IF LoopCond(c.i + 1)
                THEN [c EXCEPT !.pc = RetryPc, !.i = Min(c.i + 1, MaxIter),
                               !.fresh = FALSE]
                ELSE [c EXCEPT !.pc = "exited", !.fresh = FALSE]
       IN  /\ heap' = Release([heap EXCEPT ![c.buf] = masked], d)
           /\ calls' = [calls EXCEPT ![p] = d]
    /\ UNCHANGED <<defaultRand, seedCalls>>

\* ----------------------------------------------------- ExpSource.Uint64

Call_ExpSource_Uint64(p) ==
    /\ Ready(p)
    /\ calls' = [calls EXCEPT ![p] = Begin(p, "ExpSource.Uint64", 0, "u64_read")]
    /\ heap' = BeginHeap(p)
    /\ UNCHANGED <<defaultRand, seedCalls>>

ExpSource_Uint64_Read(p) ==
    /\ calls[p].pc = "u64_read"
    /\ \E o \in OsRead(BufLen) :
         LET c == Observe(calls[p], BufLen, o)
             d == IF o.err # NoErr THEN OnReadError(c, o.err)
                  ELSE [c EXCEPT !.pc = "u64_ret"]
         IN  /\ heap' = Release([heap EXCEPT ![c.buf] = Fill(@, o.bytes)], d)
             /\ calls' = [calls EXCEPT ![p] = d]
    /\ UNCHANGED <<defaultRand, seedCalls>>

\* A variant: the bytes taken in big-endian order.
Uint64ValueBigEndian(b) == BigEndianUint64(b)

\* return binary.LittleEndian.Uint64(buf)
Uint64Value(b) == LittleEndianUint64(b)

\* ExpSource.Uint64 returns: to its caller when called directly, to
\* exprand.Rand when a package-level draw called it through defaultRand.
ExpSource_Uint64_Return(p) ==
    /\ calls[p].pc = "u64_ret"
    /\ LET c == calls[p]
           v == Uint64Value(heap[c.buf])
           d == IF c.op = "ExpSource.Uint64"
                THEN [c EXCEPT !.pc = "done", !.res = v, !.fresh = FALSE]
                ELSE [c EXCEPT !.pc = "rand_ret", !.ret = v, !.fresh = FALSE]
       IN  /\ heap' = [heap EXCEPT ![c.buf] = Zero8]
           /\ calls' = [calls EXCEPT ![p] = d]
    /\ UNCHANGED <<defaultRand, seedCalls>>

\* ------------------------------------------- draws through defaultRand

\* exprand.Rand.Int63: int64(r.src.Uint64() & rngMask), rngMask = 1<<63 - 1
Rand_Int63(v) == [v EXCEPT ![1] = BitAnd(@, 32767)]

\* func Int63() int64 { return defaultRand.Int63() }
Call_Int63(p) ==
    /\ Ready(p)
    /\ defaultRand.src = "ExpSource"
    /\ calls' = [calls EXCEPT ![p] = Begin(p, "Int63", 0, "u64_read")]
    /\ heap' = BeginHeap(p)
    /\ UNCHANGED <<defaultRand, seedCalls>>

Rand_Int63_Return(p) ==
    /\ calls[p].pc = "rand_ret"
    /\ calls[p].op = "Int63"
    /\ calls' = [calls EXCEPT ![p] =
           [@ EXCEPT !.pc = "done", !.res = Rand_Int63(calls[p].ret)]]
    /\ UNCHANGED <<defaultRand, heap, seedCalls>>

\* v % n for a 64-bit v and 0 < n < 2^15.
ModU64(v, n) ==
    LET r1 == v[1] % n
        r2 == (r1 * Limb + v[2]) % n
        r3 == (r2 * Limb + v[3]) % n
    IN  (r3 * Limb + v[4]) % n

\* v - k for k <= the lowest limb of v.
SubSmall(v, k) == [v EXCEPT ![4] = @ - k]

\* n&(n-1) == 0
IsPow2(n) == BitAnd(n, n - 1) = 0

\* exprand.Rand.Uint64n: a v at or above the ceiling
\* MaxUint64 - MaxUint64%n is drawn again.
Rand_Uint64n_Rejects(v, n) ==
    /\ ~IsPow2(n)
    /\ LessU64(SubSmall(MaxUint64, n), v)
    /\ ~LessU64(v, SubSmall(MaxUint64, ModU64(MaxUint64, n)))

\* A variant: the value reduced modulo n + 1.
Rand_Uint64n_OffByOne(v, n) == <<0, 0, 0, ModU64(v, n + 1)>>

\* exprand.Rand.Uint64n: r.Uint64() & (n - 1) for a power of two, else v % n.
Rand_Uint64n(v, n) ==
    IF IsPow2(n) THEN <<0, 0, 0, BitAnd(v[4], n - 1)>>
    ELSE <<0, 0, 0, ModU64(v, n)>>

\* exprand.Rand.Intn, Int31n, Int63n: if n <= 0 { panic("invalid argument") }
InvalidArgument == "invalid argument"

\* exprand.Rand.Intn, Int31n, Int63n begin: the bound is checked before any
\* draw.
Rand_BoundedBegin(p, fn, n) ==
    IF n <= 0
    THEN [Begin(p, fn, n, "panicked") EXCEPT !.err = InvalidArgument]
    ELSE Begin(p, fn, n, "u64_read")

\* func Intn(n int) int       { return defaultRand.Intn(n) }
\* func Int31n(n int32) int32 { return defaultRand.Int31n(n) }
\* func Int63n(n int64) int64 { return defaultRand.Int63n(n) }
Call_Bounded(p) ==
    /\ Ready(p)
    /\ defaultRand.src = "ExpSource"
    /\ \E fn \in BoundedFns : \E n \in NVals :
         calls' = [calls EXCEPT ![p] = Rand_BoundedBegin(p, fn, n)]
    /\ heap' = BeginHeap(p)
    /\ UNCHANGED <<defaultRand, seedCalls>>

Rand_Uint64n_Return(p) ==
    /\ calls[p].pc = "rand_ret"
    /\ calls[p].op \in BoundedFns
    /\ LET c == calls[p]
       IN  calls' = [calls EXCEPT ![p] =
               IF Rand_Uint64n_Rejects(c.ret, c.n)
               THEN [c EXCEPT !.pc = "u64_read", !.ret = <<>>]
               ELSE [c EXCEPT !.pc = "done", !.res = Rand_Uint64n(c.ret, c.n)]]
    /\ UNCHANGED <<defaultRand, heap, seedCalls>>

\* ------------------------------------------------------------------ Seed

\* A variant: Seed replaces the default generator by a seeded one.
SeedReplacesDefault(st, v) == <<[src |-> "Seeded"], st[2], st[3]>>

\* func Seed(_ uint64) {}
Seed(st, v) == st

\* func (ExpSource) Seed(_ uint64) {}
ExpSource_Seed(st, v) == st

Call_Seed(v) ==
    /\ LET st == Seed(<<defaultRand, calls, heap>>, v)
       IN  defaultRand' = st[1] /\ calls' = st[2] /\ heap' = st[3]
    /\ seedCalls' = 1 - seedCalls

Call_ExpSource_Seed(v) ==
    /\ LET st == ExpSource_Seed(<<defaultRand, calls, heap>>, v)
       IN  defaultRand' = st[1] /\ calls' = st[2] /\ heap' = st[3]
    /\ seedCalls' = 1 - seedCalls

\* ------------------------------------------------------------------ Read

\* The caller's buffer before the call.
CallerBuf(len) == [k \in 1..len |-> 170]

\* A variant: Read panics on an OS error, as the integer draws do.
ReadReturnPanics(c, o) ==
    IF o.err # NoErr THEN [c EXCEPT !.pc = "panicked", !.err = o.err]
    ELSE [c EXCEPT !.pc = "done", !.cnt = o.n, !.err = o.err]

\* func Read(p []byte) (int, error) { return rand.Read(p) }
ReadReturn(c, o) == [c EXCEPT !.pc = "done", !.cnt = o.n, !.err = o.err]

Call_Read(p) ==
    /\ Ready(p)
    /\ \E len \in 0..MaxLen : \E o \in OsRead(len) :
         LET c == Observe([NoCall EXCEPT !.op = "Read", !.n = len,
                                         !.buf = ArgBuf(p)], len, o)
         IN  /\ heap' = [heap EXCEPT ![ArgBuf(p)] = Fill(CallerBuf(len), o.bytes)]
             /\ calls' = [calls EXCEPT ![p] = ReadReturn(c, o)]
    /\ UNCHANGED <<defaultRand, seedCalls>>

\* ------------------------------------------------------------------ Next

Next ==
    \/ \E p \in Procs : Call_ExpSource_Int63(p)
    \/ \E p \in Procs : ExpSource_Int63_Read(p)
    \/ \E p \in Procs : ExpSource_Int63_Check(p)
    \/ \E p \in Procs : Call_ExpSource_Uint64(p)
    \/ \E p \in Procs : ExpSource_Uint64_Read(p)
    \/ \E p \in Procs : ExpSource_Uint64_Return(p)
    \/ \E p \in Procs : Call_Int63(p)
    \/ \E p \in Procs : Rand_Int63_Return(p)
    \/ \E p \in Procs : Call_Bounded(p)
    \/ \E p \in Procs : Rand_Uint64n_Return(p)
    \/ \E p \in Procs : Call_Read(p)
    \/ \E v \in SeedVals : Call_Seed(v)
    \/ \E v \in SeedVals : Call_ExpSource_Seed(v)

Spec == Init /\ [][Next]_vars

\* The draws of ExpSource.Int63 alone, with the fairness its liveness rests
\* on: a step of a call that can be taken is taken (every operation is
\* synchronous and the OS read always completes), and the OS does not forever
\* deliver bytes that Int63 rejects.
Rejected(bytes) ==
    /\ Len(bytes) = BufLen
    /\ bytes[1] % 128 = 127
    /\ \A k \in 2..BufLen : bytes[k] = 255

ExpSource_Int63_ReadUsable(p) ==
    \E o \in OsRead(BufLen) :
        /\ ~Rejected(o.bytes)
        /\ ExpSource_Int63_ReadOutcome(p, o)

LiveNext ==
    \/ \E p \in Procs : Call_ExpSource_Int63(p)
    \/ \E p \in Procs : ExpSource_Int63_Read(p)
    \/ \E p \in Procs : ExpSource_Int63_Check(p)

LiveSpec ==
    /\ Init
    /\ [][LiveNext]_vars
    /\ \A p \in Procs :
         /\ WF_vars(ExpSource_Int63_Read(p))
         /\ WF_vars(ExpSource_Int63_Check(p))
         /\ SF_vars(ExpSource_Int63_ReadUsable(p))

\* ---------------------------------------------------------------- claims

Done(p, op) == calls[p].pc = "done" /\ calls[p].op = op

\* C1: a value that ExpSource.Int63 returns is never negative and never
\* 2^63-1: it lies in [0, 2^63-2].
C1_Int63InRange ==
    \A p \in Procs :
        Done(p, "ExpSource.Int63") =>
            /\ ~IsNegative(calls[p].res)
            /\ calls[p].res # MaxInt64

\* ExpSource.Int63 returned 2^63-2, the largest value it may, after a retry.
C1_Witness ==
    \E p \in Procs :
        /\ Done(p, "ExpSource.Int63")
        /\ calls[p].i >= 1
        /\ calls[p].res = <<32767, 65535, 65535, 65534>>

\* C2: a value that the package-level Int63 returns is never negative and
\* never 2^63-1.
C2_PkgInt63InRange ==
    \A p \in Procs :
        Done(p, "Int63") =>
            /\ ~IsNegative(calls[p].res)
            /\ calls[p].res # MaxInt64

\* C3: when an OS read of ExpSource.Int63 or ExpSource.Uint64 fails, the
\* call has panicked with the OS's error: it holds no value and is not back
\* at the read.
C3_ReadFailurePanics ==
    \A p \in Procs :
        (/\ calls[p].op \in {"ExpSource.Int63", "ExpSource.Uint64"}
         /\ calls[p].oserr # NoErr) =>
            /\ calls[p].pc = "panicked"
            /\ calls[p].err = calls[p].oserr
            /\ calls[p].res = <<>>

\* ExpSource.Int63 panicked on the read of a retry, and ExpSource.Uint64 on
\* its read.
C3_Witness ==
    /\ \E p \in Procs :
        /\ calls[p].op = "ExpSource.Int63"
        /\ calls[p].pc = "panicked"
        /\ calls[p].i >= 1
        /\ calls[p].err = "EAGAIN"
    /\ \E p \in Procs :
        /\ calls[p].op = "ExpSource.Uint64"
        /\ calls[p].pc = "panicked"
        /\ calls[p].err = "EIO"

\* C4: Read never panics; it asks the OS once for the whole buffer and
\* returns the OS's count and error: the buffer's length and nil on success,
\* a smaller count and the error on failure; the bytes the OS delivered are
\* the head of the buffer.
C4_ReadReturnsOsResult ==
    \A p \in Procs :
        calls[p].op = "Read" =>
            /\ calls[p].pc = "done"
            /\ calls[p].reads = 1
            /\ calls[p].reqLen = calls[p].n
            /\ calls[p].cnt = Len(calls[p].delivered)
            /\ calls[p].err = calls[p].oserr
            /\ (calls[p].err = NoErr => calls[p].cnt = calls[p].n)
            /\ (calls[p].err # NoErr => calls[p].cnt < calls[p].n)
            /\ Len(heap[ArgBuf(p)]) = calls[p].n
            /\ \A k \in 1..calls[p].cnt :
                 heap[ArgBuf(p)][k] = calls[p].delivered[k]

\* Read returned an error with a partial count of one byte.
C4_Witness ==
    \E p \in Procs :
        /\ Done(p, "Read")
        /\ calls[p].err = "EIO"
        /\ calls[p].n = 2
        /\ calls[p].cnt = 1
        /\ heap[ArgBuf(p)] = <<1, 170>>

\* The result of a returned call, byte by byte, from the bytes the OS
\* delivered to the call's own last read.
OwnBytes(p) ==
    /\ Done(p, "ExpSource.Int63") =>
         \A k \in 1..BufLen :
            ByteAt(calls[p].res, k) =
                IF k = 1 THEN calls[p].delivered[1] % 128
                ELSE calls[p].delivered[k]
    /\ Done(p, "ExpSource.Uint64") =>
         \A k \in 1..BufLen :
            ByteAt(calls[p].res, k) = calls[p].delivered[BufLen + 1 - k]
    /\ Done(p, "Read") =>
         \A k \in 1..calls[p].cnt :
            heap[calls[p].buf][k] = calls[p].delivered[k]

\* A step that leaves a caller's call as it was leaves that call's buffer
\* as it was.
Frame ==
    \A p \in Procs :
        (calls'[p] = calls[p] /\ calls[p].buf # <<>>) =>
            heap'[calls[p].buf] = heap[calls[p].buf]

\* C5: under every interleaving, the result of ExpSource.Int63,
\* ExpSource.Uint64 and Read is made of the bytes the OS delivered to that
\* call's own reads, and no step of one call changes another call's buffer.
C5_CallsIsolated ==
    /\ [](\A p \in Procs : OwnBytes(p))
    /\ [][Frame]_vars

\* One caller's ExpSource.Int63 returned the value of its own bytes while
\* another's was between its read and its check, holding different bytes.
C5_Witness ==
    \E p \in Procs : \E q \in Procs \ {p} :
        /\ Done(p, "ExpSource.Int63")
        /\ calls[p].delivered = <<1, 2, 3, 4, 5, 6, 7, 8>>
        /\ calls[p].res = <<258, 772, 1286, 1800>>
        /\ calls[q].pc = "i63_check"
        /\ calls[q].delivered = <<128, 0, 0, 0, 0, 0, 0, 0>>

\* C6: a call of Seed or of ExpSource.Seed changes nothing: the default
\* generator, the calls in progress and the buffers are what they were, so
\* every later draw is what it would have been.
C6_SeedIsNoOp ==
    [][seedCalls' # seedCalls => UNCHANGED <<defaultRand, calls, heap>>]_vars

\* Seed was called while ExpSource.Int63 was between its read and its check.
C6_Witness ==
    /\ seedCalls = 1
    /\ \E p \in Procs :
        /\ calls[p].pc = "i63_check"
        /\ heap[calls[p].buf] = <<1, 2, 3, 4, 5, 6, 7, 8>>

\* C7: Intn, Int31n and Int63n with n <= 0 panic with the caller error
\* before any OS read; with n > 0 a returned value r has 0 <= r < n.
C7_BoundedInRange ==
    \A p \in Procs :
        calls[p].op \in BoundedFns =>
            /\ calls[p].n <= 0 =>
                 /\ calls[p].pc = "panicked"
                 /\ calls[p].err = InvalidArgument
                 /\ calls[p].reads = 0
                 /\ calls[p].res = <<>>
            /\ (calls[p].n > 0 /\ calls[p].pc = "done") =>
                 /\ ~IsNegative(calls[p].res)
                 /\ LessU64(calls[p].res, <<0, 0, 0, calls[p].n>>)
            /\ (calls[p].n > 0 /\ calls[p].pc = "panicked") =>
                 calls[p].err \in OsErrors

\* Int63n(3) returned 2 after one draw was rejected, and Intn(0) panicked
\* with the caller error.
C7_Witness ==
    /\ \E p \in Procs :
        /\ Done(p, "Int63n")
        /\ calls[p].n = 3
        /\ calls[p].reads >= 2
        /\ calls[p].res = <<0, 0, 0, 2>>
    /\ \E p \in Procs :
        /\ calls[p].op = "Intn"
        /\ calls[p].n = 0
        /\ calls[p].pc = "panicked"

\* A retry of ExpSource.Int63: the call goes from its check back to the read.
RetryOnlyOnMaxInt64 ==
    \A p \in Procs :
        (calls[p].pc = "i63_check" /\ calls'[p].pc = "i63_read") =>
            Rejected(calls[p].delivered)

\* C8: in ExpSource.Int63 the value is examined only after a new 8-byte read,
\* a retry happens only when the bytes read, the top bit of the first one
\* cleared, are 2^63-1 in big-endian order, and the value returned is made of
\* the bytes of the last read alone.
C8_FreshReadEachIteration ==
    /\ [](\A p \in Procs :
            /\ calls[p].pc = "i63_check" =>
                 calls[p].fresh /\ calls[p].reqLen = BufLen
            /\ calls[p].op = "ExpSource.Int63" => calls[p].reads >= calls[p].i
            /\ Done(p, "ExpSource.Int63") =>
                 \A k \in 1..BufLen :
                    ByteAt(calls[p].res, k) =
                        IF k = 1 THEN calls[p].delivered[1] % 128
                        ELSE calls[p].delivered[k])
    /\ [][RetryOnlyOnMaxInt64]_vars

\* ExpSource.Int63 returned 0 from the bytes 80 00 .. 00 of its third read,
\* the first two having been rejected.
C8_Witness ==
    \E p \in Procs :
        /\ Done(p, "ExpSource.Int63")
        /\ calls[p].i = 2
        /\ calls[p].reads = 3
        /\ calls[p].delivered = <<128, 0, 0, 0, 0, 0, 0, 0>>
        /\ calls[p].res = <<0, 0, 0, 0>>

\* A call at its check whose bytes are rejected goes back to the read,
\* whatever the number of rejections so far.
NoRetryCap ==
    \A p \in Procs :
        (/\ calls[p].pc = "i63_check"
         /\ Rejected(calls[p].delivered)
         /\ calls'[p] # calls[p]) =>
            calls'[p].pc = "i63_read"

\* C9: under the fairness of LiveSpec a call of ExpSource.Int63 that is in
\* progress returns or panics, and a rejection always leads to another read.
C9_Int63Terminates ==
    /\ \A p \in Procs :
         (calls[p].pc \in {"i63_read", "i63_check"})
            ~> (calls[p].pc \in {"done", "panicked"})
    /\ [][NoRetryCap]_vars

\* ExpSource.Int63 returned after MaxIter rejections.
C9_Witness ==
    \E p \in Procs :
        /\ Done(p, "ExpSource.Int63")
        /\ calls[p].i = MaxIter
        /\ calls[p].reads = MaxIter + 1

\* C10: ExpSource.Uint64 reads 8 bytes once and returns their little-endian
\* value: byte k of the value, from the least significant, is byte k of the
\* input, so two calls return the same value only for the same input.
C10_Uint64LittleEndian ==
    /\ \A p \in Procs :
         Done(p, "ExpSource.Uint64") =>
            /\ calls[p].reads = 1
            /\ calls[p].reqLen = BufLen
            /\ \A k \in 1..BufLen :
                 ByteAt(calls[p].res, k) = calls[p].delivered[BufLen + 1 - k]
    /\ \A p \in Procs : \A q \in Procs :
         (Done(p, "ExpSource.Uint64") /\ Done(q, "ExpSource.Uint64")) =>
            (calls[p].res = calls[q].res <=> calls[p].delivered = calls[q].delivered)

\* ExpSource.Uint64 returned 0x0807060504030201 for the bytes 01 02 .. 08,
\* and another call another value for other bytes.
C10_Witness ==
    \E p \in Procs : \E q \in Procs \ {p} :
        /\ Done(p, "ExpSource.Uint64")
        /\ calls[p].delivered = <<1, 2, 3, 4, 5, 6, 7, 8>>
        /\ calls[p].res = <<2055, 1541, 1027, 513>>
        /\ Done(q, "ExpSource.Uint64")
        /\ calls[q].delivered = <<128, 0, 0, 0, 0, 0, 0, 0>>
        /\ calls[q].res = <<0, 0, 0, 128>>

====
